---- MODULE Spec2Model ----
(***************************************************************************)
(* Model of Source/BBS_Steam_Account_Fix.py: the control flow of main(),   *)
(* process_regfile(), the restore-point and VSS searches, and the text     *)
(* processing of export_and_save().                                        *)
(*                                                                         *)
(* Text is a sequence of tokens; the token "\n" is the line separator.     *)
(* A line is a sequence of tokens without "\n".  Times are seconds since   *)
(* the epoch (UTC).                                                        *)
(***************************************************************************)
EXTENDS Integers, Sequences, FiniteSets, TLC

(* ---------------- bounds of the model ---------------- *)
\* restore points returned by find_restore_point_snapshot_dirs
MaxRP == 2
\* shadow copy sets listed by "vssadmin list shadows"
MaxSets == 1
\* lines of an exported key (specification SpecExport)
MaxLines == 5

(* ---------------- GLOBAL VARIABLES of the script ---------------- *)
TEMP_MOUNT_NAME == "TempHive"
TARGET_REL_PATH == "Software\\KLab\\BleachBraveSouls"
OLD_VALUE_NAME == "224515408_h90860828"
NEW_VALUE_NAME == "-907038497_h2948477015"
\* datetime(2025, 10, 4, 9, 10, 16, tzinfo=utc) as seconds since the epoch
CUTOFF_DATETIME == 1759569016

(* ---------------- text ---------------- *)
NL == "\n"
BS == "\\"
QUOTE == "\""
Whitespace == {" ", "  "}

\* str.startswith
StartsWith(s, p) == Len(p) <= Len(s) /\ SubSeq(s, 1, Len(p)) = p

\* str.endswith
EndsWith(s, p) ==
  Len(p) <= Len(s) /\ SubSeq(s, Len(s) - Len(p) + 1, Len(s)) = p

\* the "in" operator on strings
RECURSIVE Contains(_, _)
Contains(s, p) ==
  IF Len(s) < Len(p) THEN FALSE
  ELSE StartsWith(s, p) \/ Contains(Tail(s), p)

\* str.replace: every non-overlapping occurrence, left to right
RECURSIVE Replace(_, _, _)
Replace(s, old, new) ==
  IF s = <<>> THEN <<>>
  ELSE IF StartsWith(s, old)
       THEN new \o Replace(SubSeq(s, Len(old) + 1, Len(s)), old, new)
       ELSE <<Head(s)>> \o Replace(Tail(s), old, new)

RECURSIVE lstrip(_)
lstrip(s) ==
  IF s # <<>> /\ Head(s) \in Whitespace THEN lstrip(Tail(s)) ELSE s

RECURSIVE rstrip(_)
rstrip(s) ==
  IF s # <<>> /\ s[Len(s)] \in Whitespace
  THEN rstrip(SubSeq(s, 1, Len(s) - 1)) ELSE s

\* str.strip
strip(s) == rstrip(lstrip(s))

RECURSIVE SplitAcc(_, _)
SplitAcc(d, cur) ==
  IF d = <<>> THEN (IF cur = <<>> THEN <<>> ELSE <<cur>>)
  ELSE IF Head(d) = NL THEN <<cur>> \o SplitAcc(Tail(d), <<>>)
       ELSE SplitAcc(Tail(d), Append(cur, Head(d)))

\* str.splitlines: every "\n" ends a line, a non-empty rest is a last line
splitlines(data) == SplitAcc(data, <<>>)

\* "\n".join(ls)
RECURSIVE join(_)
join(ls) ==
  IF ls = <<>> THEN <<>>
  ELSE IF Len(ls) = 1 THEN ls[1]
       ELSE ls[1] \o <<NL>> \o join(Tail(ls))

\* the text of a file whose lines are ls, each ended by a newline
RECURSIVE FileText(_)
FileText(ls) ==
  IF ls = <<>> THEN <<>> ELSE ls[1] \o <<NL>> \o FileText(Tail(ls))

(* ---------------- lines of a registry export ---------------- *)
\* rf"[HKEY_USERS\{hive_mount_name}\{TARGET_REL_PATH}]"
HiveHeader(hive_mount_name) ==
  <<"[", "HKEY_USERS", BS, hive_mount_name, BS, TARGET_REL_PATH, "]">>

\* rf"[HKEY_CURRENT_USER\{TARGET_REL_PATH}]"
target_key_line == <<"[", "HKEY_CURRENT_USER", BS, TARGET_REL_PATH, "]">>

\* f"\"{OLD_VALUE_NAME}\"="
OldPrefix == <<QUOTE, OLD_VALUE_NAME, QUOTE, "=">>

\* the lines "reg export" writes for a key mounted under HKU\TempHive
L_hdr == HiveHeader(TEMP_MOUNT_NAME)
L_sub ==
  <<"[", "HKEY_USERS", BS, TEMP_MOUNT_NAME, BS, TARGET_REL_PATH, BS, "Sub", "]">>
L_old == OldPrefix \o <<"dword:00000001">>
L_oldhex == OldPrefix \o <<"hex:01,", BS>>
L_mid == <<"  ", "02,", BS>>
L_last == <<"  ", "03">>
L_other == <<QUOTE, "other", QUOTE, "=", "dword:00000002">>
L_otherhex == <<QUOTE, "other", QUOTE, "=", "hex:0a,", BS>>
L_blank == <<>>

ExportLines ==
  {L_hdr, L_sub, L_old, L_oldhex, L_mid, L_last, L_other, L_otherhex, L_blank}

IsHeader(line) == StartsWith(line, <<"[">>)
IsContinuation(line) == line # <<>> /\ Head(line) \in Whitespace
EndsBS(line) == EndsWith(strip(line), <<BS>>)
IsOldFirst(line) == StartsWith(strip(line), OldPrefix)
ValueName(line) == IF StartsWith(line, <<QUOTE>>) /\ Len(line) >= 2 THEN line[2] ELSE ""

\* the last line of the key section that starts at line k (a header)
RECURSIVE SectionEnd(_, _)
SectionEnd(ls, k) ==
  IF k < Len(ls) /\ ~IsHeader(ls[k + 1]) THEN SectionEnd(ls, k + 1) ELSE k

\* what "reg export" of a key can produce: the key's header first, every
\* hex line that ends with a backslash continued on the next line, value
\* names unique within a key, subkeys after the key's own values
WellFormedExport(ls) ==
  /\ Len(ls) >= 1
  /\ ls[1] = L_hdr
  /\ \A k \in 2..Len(ls) : ls[k] # L_hdr
  /\ \A k \in 1..Len(ls) : \A m \in 1..Len(ls) :
       (ls[k] = L_sub /\ ls[m] = L_sub) => k = m
  /\ \A k \in 1..Len(ls) :
       EndsBS(ls[k]) => k < Len(ls) /\ IsContinuation(ls[k + 1])
  /\ \A k \in 1..Len(ls) :
       IsContinuation(ls[k]) => k > 1 /\ EndsBS(ls[k - 1])
  /\ \A k \in 1..Len(ls) : \A m \in 1..Len(ls) :
       (/\ k < m
        /\ ValueName(ls[k]) # ""
        /\ ValueName(ls[k]) = ValueName(ls[m]))
       => \E h \in (k + 1)..(m - 1) : IsHeader(ls[h])

\* winreg.QueryValueEx(key, OLD_VALUE_NAME) on the target key of a hive
HasOldValue(ls) ==
  /\ Len(ls) >= 1
  /\ ls[1] = L_hdr
  /\ \E k \in 2..SectionEnd(ls, 1) : IsOldFirst(ls[k])

(* ---------------- export_and_save: the text processing ---------------- *)
\* while j < len(lines) and lines[j].strip().endswith("\\"): j += 1
RECURSIVE scan_block(_, _)
scan_block(lines, j) ==
  IF j < Len(lines) /\ EndsWith(strip(lines[j + 1]), <<BS>>)
  THEN scan_block(lines, j + 1)
  ELSE j

\* the while loop over lines; i and j are the 0-based indices of the code
RECURSIVE duplicate_loop(_, _, _)
duplicate_loop(lines, i, new_lines) ==
  IF ~(i < Len(lines)) THEN new_lines
  ELSE LET line == lines[i + 1]
           appended == Append(new_lines, line)
       IN IF StartsWith(strip(line), OldPrefix)
          THEN LET j == scan_block(lines, i + 1)
                   block_lines == SubSeq(lines, i + 1, j)
                   copied == appended \o SubSeq(lines, i + 2, j)
                   block_text == join(block_lines)
                   new_block ==
                     Replace(block_text, <<OLD_VALUE_NAME>>, <<NEW_VALUE_NAME>>)
               IN duplicate_loop(lines, (j - 1) + 1, Append(copied, new_block))
          ELSE duplicate_loop(lines, i + 1, appended)

\* data -> the text written to OUTPUT_REG_FILE
fixed_export(data, hive_mount_name) ==
  LET data_fixed == Replace(data, HiveHeader(hive_mount_name), target_key_line)
      lines == splitlines(data_fixed)
  IN join(duplicate_loop(lines, 0, <<>>))

\* winreg.SetValueEx(key, NEW_VALUE_NAME, 0, vtype, val) on the target key of
\* a mounted hive: the key gains a value NEW_VALUE_NAME with the data of
\* OLD_VALUE_NAME, listed after the key's other values
RECURSIVE BlockEnd(_, _)
BlockEnd(ls, k) ==
  IF k < Len(ls) /\ EndsBS(ls[k]) THEN BlockEnd(ls, k + 1) ELSE k

SetValueEx(ls) ==
  LET i == CHOOSE k \in 2..SectionEnd(ls, 1) : IsOldFirst(ls[k])
      e == SectionEnd(ls, 1)
      block == SubSeq(ls, i, BlockEnd(ls, i))
      renamed ==
        [k \in 1..Len(block) |->
           Replace(block[k], <<OLD_VALUE_NAME>>, <<NEW_VALUE_NAME>>)]
  IN SubSeq(ls, 1, e) \o renamed \o SubSeq(ls, e + 1, Len(ls))

(* ---------------- the environment ---------------- *)
\* modification and creation times around the cutoff
Times ==
  {CUTOFF_DATETIME - 2, CUTOFF_DATETIME - 1, CUTOFF_DATETIME, CUTOFF_DATETIME + 1}

\* offset of the local time zone from UTC, in seconds
TZOffsets == {0 - 3600, 0, 3600}

SeqsUpTo(S, n) == UNION {[1..m -> S] : m \in 0..n}

\* the mtimes of the RP* directories that have a snapshot subdirectory, in
\* the order glob returns them; a restore point is known by its index
RPLists == SeqsUpTo(Times, MaxRP)

\* a shadow copy set: its creation time (UTC), whether vssadmin prints the
\* time in the form "%m/%d/%Y %I:%M:%S %p", and the number of its shadows
ShadowSets ==
  [ctime : {CUTOFF_DATETIME - 1, CUTOFF_DATETIME, CUTOFF_DATETIME + 1},
   fmt_ok : BOOLEAN, n : {1, 2}]
ShadowSetLists == SeqsUpTo(ShadowSets, MaxSets)

\* the keys of a user hive, as "reg export" would list them once mounted
NoValueHive == <<L_hdr, L_other>>
ValueHive == <<L_hdr, L_oldhex, L_last, L_sub, L_other>>
Hives == {NoValueHive, ValueHive}

\* a hive file that may be absent
NoFile == [present |-> FALSE, lines |-> <<>>]
HiveFiles == {NoFile} \cup {[present |-> TRUE, lines |-> h] : h \in Hives}

\* the --regfile argument and the file it names.  enc is how the bytes
\* decode: "utf16" (UTF-16 text), "utf8" (UTF-8 text that fails to decode as
\* UTF-16), "garbled" (UTF-8 text whose bytes decode as UTF-16 without an
\* error, to other characters), "neither" (valid in neither encoding)
RegText == <<"Windows Registry Editor Version 5.00">>
RegWithKey ==
  FileText(<<RegText, L_blank, target_key_line, L_old, L_other>>)
RegOtherKey == FileText(<<RegText, L_blank, L_hdr, L_old>>)
NoRegfile == [given |-> FALSE, exists |-> FALSE, enc |-> "utf16", text |-> <<>>]
RegfileArgs ==
  {NoRegfile}
  \cup {[given |-> TRUE, exists |-> FALSE, enc |-> "utf16", text |-> <<>>]}
  \cup {[given |-> TRUE, exists |-> TRUE, enc |-> "neither", text |-> <<>>]}
  \cup [given : {TRUE}, exists : {TRUE}, enc : {"utf16", "utf8", "garbled"},
        text : {RegWithKey, RegOtherKey}]

Garbled == <<"(characters of a UTF-8 file read as UTF-16)">>
Leftover == <<"(left over from an earlier run)">>

NoSuchFile == [exists |-> FALSE, data |-> <<>>]
Written(data) == [exists |-> TRUE, data |-> data]

Unloaded == [loaded |-> FALSE, lines |-> <<>>]
\* a command run or a result returned: by whom (a) and how it ended (ok)
Ev(op, a, ok) == [op |-> op, a |-> a, ok |-> ok]
\* a step of a search on the snapshot id, whose time is t (UTC); parsed:
\* the time could be read (always, for a restore point)
Tr(op, id, t, parsed, ok) ==
  [op |-> op, id |-> id, t |-> t, parsed |-> parsed, ok |-> ok]

(* ---------------- restore points ---------------- *)
\* rp_is_before_cutoff, on the mtime of the restore point
rp_is_before_cutoff_late(mtime) == ~(mtime > CUTOFF_DATETIME)
rp_is_before_cutoff(mtime) == ~(mtime >= CUTOFF_DATETIME)

\* [t for t in rps if rp_is_before_cutoff(t[0])], as indices into rps
RECURSIVE filter_rps(_, _)
filter_rps(mtimes, k) ==
  IF k > Len(mtimes) THEN <<>>
  ELSE (IF rp_is_before_cutoff(mtimes[k]) THEN <<k>> ELSE <<>>)
       \o filter_rps(mtimes, k + 1)

\* sorted(..., key=mtime, reverse=True) is stable: x goes behind every
\* element that is not older than x
RECURSIVE insert_newest_first(_, _, _)
insert_newest_first(sorted, x, mtimes) ==
  IF sorted = <<>> THEN <<x>>
  ELSE IF mtimes[Head(sorted)] >= mtimes[x]
       THEN <<Head(sorted)>> \o insert_newest_first(Tail(sorted), x, mtimes)
       ELSE <<x>> \o sorted

RECURSIVE sort_rps_newest_first(_, _)
sort_rps_newest_first(rp_list, mtimes) ==
  IF rp_list = <<>> THEN <<>>
  ELSE insert_newest_first(
         sort_rps_newest_first(SubSeq(rp_list, 1, Len(rp_list) - 1), mtimes),
         rp_list[Len(rp_list)], mtimes)

(* ---------------- VSS ---------------- *)
VssLine(kind, ok, t, path) == [kind |-> kind, ok |-> ok, t |-> t, path |-> path]

\* the lines "vssadmin list shadows" prints for one shadow of a set; the
\* shadows are numbered HarddiskVolumeShadowCopy<first>, <first + 1>, ...
RECURSIVE ShadowLines(_, _)
ShadowLines(first, n) ==
  IF n = 0 THEN <<>>
  ELSE <<VssLine("Shadow Copy ID:", TRUE, 0, 0),
         VssLine("Original Volume:", TRUE, 0, 0),
         VssLine("Shadow Copy Volume:", TRUE, 0, first)>>
       \o ShadowLines(first + 1, n - 1)

\* the output for a list of sets, with creation times printed in local time
RECURSIVE vssadmin_output(_, _, _)
vssadmin_output(sets, first, zone) ==
  IF sets = <<>> THEN <<>>
  ELSE <<VssLine("Contents of shadow copy set ID:", TRUE, 0, 0),
         VssLine("at creation time:", sets[1].fmt_ok, sets[1].ctime + zone, 0)>>
       \o ShadowLines(first, sets[1].n)
       \o vssadmin_output(Tail(sets), first + sets[1].n, zone)

\* datetime.strptime(date_str, fmt).astimezone(utc): local time to UTC
astimezone_utc(local_time, zone) == local_time - zone

\* the loop of list_vss_snapshots_before_cutoff; current is the dict
NoCurrent == [has_ctime |-> FALSE, is_none |-> TRUE, ctime |-> 0]
RECURSIVE parse_vss(_, _, _, _)
parse_vss(lines, current, shadows, zone) ==
  IF lines = <<>> THEN shadows
  ELSE LET line == Head(lines) IN
    IF line.kind = "Shadow Copy ID:"
    THEN parse_vss(Tail(lines), current, shadows, zone)
    ELSE IF line.kind = "at creation time:"
    THEN parse_vss(Tail(lines),
           IF line.ok
           THEN [has_ctime |-> TRUE, is_none |-> FALSE,
                 ctime |-> astimezone_utc(line.t, zone)]
           ELSE [has_ctime |-> TRUE, is_none |-> TRUE, ctime |-> 0],
           shadows, zone)
    ELSE IF line.kind = "Shadow Copy Volume:"
    THEN parse_vss(Tail(lines), NoCurrent,
           IF current.has_ctime /\ ~current.is_none
              /\ current.ctime < CUTOFF_DATETIME
           THEN Append(shadows, line.path) ELSE shadows,
           zone)
    ELSE parse_vss(Tail(lines), current, shadows, zone)

list_vss_snapshots_before_cutoff(lines, zone) ==
  parse_vss(lines, NoCurrent, <<>>, zone)

\* the set that shadow number id belongs to
RECURSIVE SetOfShadow(_, _)
SetOfShadow(sets, id) ==
  IF id <= sets[1].n THEN sets[1] ELSE SetOfShadow(Tail(sets), id - sets[1].n)

(* ---------------- state ---------------- *)
VARIABLES
  pc,               \* where the run is
  SIMULATION_MODE,  \* the global of the script
  regfile,          \* args.regfile and the file it names
  rps,              \* search_old_restore_points: mtimes of the restore points
  rps_sorted,       \* the restore points to try, as indices into rps
  rp_i,             \* position of the for loop over rps_sorted
  shadows,          \* search_vss_snapshots: the shadows to try
  sh_i,             \* position of the for loop over shadows
  found,            \* found (main and search_vss_snapshots)
  caller,           \* which search is running: "rp" or "vss"
  cur,              \* the snapshot of this turn of the loop and its hive
  mounted,          \* the hive loaded at HKU\TempHive
  modified,         \* result of modify_hive_value in this turn
  snapshotExport,   \* SNAPSHOT_EXPORT_FILE
  outputFile,       \* OUTPUT_REG_FILE
  regfixFile,       \* BleachBraveSouls_from_REGBackup_File_PostUpdate_Fix.reg
  liveBackup,       \* LIVE_BACKUP_FILE
  liveRegistry,     \* the texts merged into the live registry, in order
  hivesWritten,     \* which searches have changed a snapshot's hive
  ran,              \* the commands run and results returned so far in the run
  tried             \* the steps of the search that is running, in order

vars ==
  <<pc, SIMULATION_MODE, regfile, rps, rps_sorted, rp_i, shadows, sh_i, found,
    caller, cur, mounted, modified, snapshotExport, outputFile, regfixFile,
    liveBackup, liveRegistry, hivesWritten, ran, tried>>

searchVars == <<rps, rps_sorted, rp_i, shadows, sh_i>>
fileVars == <<snapshotExport, outputFile, regfixFile, liveBackup>>
hiveVars == <<cur, mounted, modified, hivesWritten>>

NoSnapshot == [id |-> 0, t |-> 0, parsed |-> TRUE, lines |-> <<>>]

InitCommon ==
  /\ regfile = NoRegfile
  /\ rps = <<>>
  /\ rps_sorted = <<>>
  /\ rp_i = 0
  /\ shadows = <<>>
  /\ sh_i = 0
  /\ found = FALSE
  /\ regfixFile = NoSuchFile
  /\ liveBackup = NoSuchFile
  /\ liveRegistry = <<>>
  /\ hivesWritten = {}
  /\ ran = {}
  /\ tried = <<>>

\* the state when the script starts: the two files main() cleans up may be
\* left over from an earlier run
Init ==
  /\ InitCommon
  /\ pc = "main"
  /\ SIMULATION_MODE = TRUE
  /\ caller = "rp"
  /\ cur = NoSnapshot
  /\ mounted = Unloaded
  /\ modified = FALSE
  /\ snapshotExport \in {NoSuchFile, Written(Leftover)}
  /\ outputFile \in {NoSuchFile, Written(Leftover)}

(* ---------------- main ---------------- *)
\* main() up to the choice between --regfile and the searches
main ==
  /\ pc = "main"
  /\ \/ \E os_nt \in BOOLEAN, is_admin \in BOOLEAN :
          /\ ~(os_nt /\ is_admin)
          /\ pc' = "done"
          /\ UNCHANGED <<SIMULATION_MODE, regfile, snapshotExport, outputFile>>
     \/ \E mode \in {"simulation", "live"}, rf \in RegfileArgs,
           sid_ok \in BOOLEAN :
          /\ snapshotExport' = NoSuchFile
          /\ outputFile' = NoSuchFile
          /\ SIMULATION_MODE' = (IF mode = "live" THEN FALSE ELSE SIMULATION_MODE)
          /\ regfile' = rf
          /\ pc' = IF ~sid_ok THEN "done"
                   ELSE IF rf.given THEN "process_regfile"
                   ELSE "backup_live"
  /\ UNCHANGED <<searchVars, hiveVars, found, caller, regfixFile, liveBackup,
                 liveRegistry, ran, tried>>

\* what open(regfile_path).read() returns, first as UTF-16, then as UTF-8
ReadRegfile(rf) == IF rf.enc = "garbled" THEN Garbled ELSE rf.text

\* if not SIMULATION_MODE, in process_regfile
merge_regfile == ~SIMULATION_MODE

\* process_regfile(args.regfile) and the return that follows it in main
process_regfile ==
  /\ pc = "process_regfile"
  /\ \/ /\ ~regfile.exists
        /\ pc' = "backup_live"
        /\ ran' = ran \cup {Ev("process_regfile", "return", FALSE)}
        /\ UNCHANGED <<regfixFile, liveBackup, liveRegistry>>
     \/ /\ regfile.exists
        /\ regfile.enc = "neither"
        /\ pc' = "crashed"
        /\ ran' = ran \cup {Ev("process_regfile", "raise", FALSE)}
        /\ UNCHANGED <<regfixFile, liveBackup, liveRegistry>>
     \/ /\ regfile.exists
        /\ regfile.enc # "neither"
        /\ ~Contains(ReadRegfile(regfile), target_key_line)
        /\ pc' = "backup_live"
        /\ ran' = ran \cup {Ev("process_regfile", "return", FALSE)}
        /\ UNCHANGED <<regfixFile, liveBackup, liveRegistry>>
     \/ /\ regfile.exists
        /\ regfile.enc # "neither"
        /\ Contains(ReadRegfile(regfile), target_key_line)
        /\ \E backup_ok \in BOOLEAN, import_ok \in BOOLEAN :
             LET data_fixed ==
                   Replace(ReadRegfile(regfile),
                           <<OLD_VALUE_NAME>>, <<NEW_VALUE_NAME>>)
             IN /\ liveBackup' =
                     (IF backup_ok THEN Written(<<"live key">>) ELSE liveBackup)
                /\ regfixFile' = Written(data_fixed)
                /\ liveRegistry' =
                     (IF merge_regfile /\ import_ok
                      THEN Append(liveRegistry, data_fixed) ELSE liveRegistry)
                /\ ran' =
                     ran \cup {Ev("reg export", "process_regfile", backup_ok),
                               Ev("process_regfile", "return", TRUE)}
                         \cup (IF merge_regfile
                               THEN {Ev("reg import", "process_regfile", import_ok)}
                               ELSE {})
        /\ pc' = "done"
  /\ UNCHANGED <<SIMULATION_MODE, regfile, searchVars, hiveVars, found, caller,
                 snapshotExport, outputFile, tried>>

\* backup_live_hkcu_key(), called from main
backup_live_hkcu_key ==
  /\ pc = "backup_live"
  /\ \E backup_ok \in BOOLEAN :
       /\ liveBackup' =
            (IF backup_ok THEN Written(<<"live key">>) ELSE liveBackup)
       /\ ran' = ran \cup {Ev("reg export", "main", backup_ok)}
  /\ pc' = "rp_begin"
  /\ UNCHANGED <<SIMULATION_MODE, regfile, searchVars, hiveVars, found, caller,
                 snapshotExport, outputFile, regfixFile, liveRegistry, tried>>

\* the end of main: if not found: print(...)
main_end ==
  /\ pc = "main_end"
  /\ pc' = "done"
  /\ UNCHANGED <<SIMULATION_MODE, regfile, searchVars, hiveVars, found, caller,
                 fileVars, liveRegistry, ran, tried>>

(* ---------------- search_old_restore_points ---------------- *)
\* the locals of a search are gone when it returns
Return ==
  /\ rps' = <<>>
  /\ rps_sorted' = <<>>
  /\ rp_i' = 0
  /\ shadows' = <<>>
  /\ sh_i' = 0
  /\ cur' = NoSnapshot
  /\ modified' = FALSE
  /\ tried' = <<>>

\* the start of search_old_restore_points: find, filter and sort
search_old_restore_points ==
  /\ pc = "rp_begin"
  /\ \E mtimes \in RPLists :
       LET rps_filtered == filter_rps(mtimes, 1)
           sorted == sort_rps_newest_first(rps_filtered, mtimes)
       IN IF sorted = <<>>
          THEN /\ pc' = "vss_begin"
               /\ ran' = ran \cup {Ev("search_old_restore_points", "call", TRUE),
                                   Ev("search_old_restore_points", "return", FALSE)}
               /\ Return
          ELSE /\ pc' = "rp_iter"
               /\ ran' = ran \cup {Ev("search_old_restore_points", "call", TRUE)}
               /\ rps' = mtimes
               /\ rps_sorted' = sorted
               /\ rp_i' = 1
               /\ tried' = <<>>
               /\ UNCHANGED <<shadows, sh_i, cur, modified>>
  /\ caller' = "rp"
  /\ found' = FALSE
  /\ UNCHANGED <<SIMULATION_MODE, regfile, mounted, hivesWritten, fileVars,
                 liveRegistry>>

\* one turn of "for rp_dir, snapshot_dir in rps_sorted" up to the try, or the
\* end of the loop
rp_iter ==
  /\ pc = "rp_iter"
  /\ \/ /\ rp_i > Len(rps_sorted)
        /\ pc' = "vss_begin"
        /\ found' = FALSE
        /\ ran' = ran \cup {Ev("search_old_restore_points", "return", FALSE)}
        /\ Return
     \/ /\ rp_i <= Len(rps_sorted)
        /\ \E hive_file \in HiveFiles :
             IF hive_file.present
             THEN /\ cur' = [id |-> rps_sorted[rp_i], t |-> rps[rps_sorted[rp_i]],
                             parsed |-> TRUE, lines |-> hive_file.lines]
                  /\ pc' = "load"
                  /\ rp_i' = rp_i
             ELSE /\ cur' = cur
                  /\ pc' = "rp_iter"
                  /\ rp_i' = rp_i + 1
        /\ UNCHANGED <<found, ran, rps, rps_sorted, shadows, sh_i, modified, tried>>
  /\ UNCHANGED <<SIMULATION_MODE, regfile, caller, mounted, hivesWritten,
                 fileVars, liveRegistry>>

(* ---------------- search_vss_snapshots ---------------- *)
\* a listed shadow, with the creation time of its set
ShadowOf(sets, path) ==
  [path |-> path, ctime |-> SetOfShadow(sets, path).ctime,
   fmt_ok |-> SetOfShadow(sets, path).fmt_ok]

\* the start of search_vss_snapshots: list the shadows before the cutoff
search_vss_snapshots ==
  /\ pc = "vss_begin"
  /\ \E sets \in ShadowSetLists, zone \in TZOffsets :
       LET listed ==
             list_vss_snapshots_before_cutoff(vssadmin_output(sets, 1, zone), zone)
       IN IF listed = <<>>
          THEN /\ pc' = "main_end"
               /\ ran' = ran \cup {Ev("search_vss_snapshots", "call", TRUE),
                                   Ev("search_vss_snapshots", "return", FALSE)}
               /\ Return
          ELSE /\ pc' = "vss_iter"
               /\ ran' = ran \cup {Ev("search_vss_snapshots", "call", TRUE)}
               /\ shadows' = [k \in 1..Len(listed) |-> ShadowOf(sets, listed[k])]
               /\ sh_i' = 1
               /\ tried' = <<>>
               /\ UNCHANGED <<rps, rps_sorted, rp_i, cur, modified>>
  /\ caller' = "vss"
  /\ found' = FALSE
  /\ UNCHANGED <<SIMULATION_MODE, regfile, mounted, hivesWritten, fileVars,
                 liveRegistry>>

\* one turn of "for shadow in shadows" up to the try, or the end of the loop
vss_iter ==
  /\ pc = "vss_iter"
  /\ \/ /\ sh_i > Len(shadows)
        /\ pc' = "main_end"
        /\ ran' = ran \cup {Ev("search_vss_snapshots", "return", found)}
        /\ Return
     \/ /\ sh_i <= Len(shadows)
        /\ \E ntuser \in HiveFiles :
             IF ntuser.present
             THEN /\ cur' = [id |-> shadows[sh_i].path, t |-> shadows[sh_i].ctime,
                             parsed |-> shadows[sh_i].fmt_ok,
                             lines |-> ntuser.lines]
                  /\ pc' = "load"
                  /\ sh_i' = sh_i
             ELSE /\ cur' = cur
                  /\ pc' = "vss_iter"
                  /\ sh_i' = sh_i + 1
        /\ UNCHANGED <<ran, rps, rps_sorted, rp_i, shadows, modified, tried>>
  /\ UNCHANGED <<SIMULATION_MODE, regfile, found, caller, mounted,
                 hivesWritten, fileVars, liveRegistry>>

(* ---------------- the body of both loops ---------------- *)
\* the next turn of the loop of the search that is running
NextTurn ==
  /\ pc' = (IF caller = "rp" THEN "rp_iter" ELSE "vss_iter")
  /\ rp_i' = (IF caller = "rp" THEN rp_i + 1 ELSE rp_i)
  /\ sh_i' = (IF caller = "rp" THEN sh_i ELSE sh_i + 1)
  /\ UNCHANGED <<rps, rps_sorted, shadows, cur, modified, tried>>

\* reg_load(hive_file, TEMP_MOUNT_NAME); "reg load" fails on a key that is
\* already loaded, and a failure raises into the except clause of the loop
reg_load ==
  /\ pc = "load"
  /\ \E ok \in BOOLEAN :
       /\ ok => ~mounted.loaded
       /\ tried' = Append(tried, Tr("reg load", cur.id, cur.t, cur.parsed, ok))
       /\ ran' = ran \cup {Ev("reg load", caller, ok)}
       /\ mounted' = (IF ok THEN [loaded |-> TRUE, lines |-> cur.lines] ELSE mounted)
       /\ pc' = (IF ok THEN "modify" ELSE "except")
  /\ UNCHANGED <<SIMULATION_MODE, regfile, searchVars, found, caller, cur,
                 modified, hivesWritten, fileVars, liveRegistry>>

\* if not SIMULATION_MODE, in modify_hive_value
set_value_always == TRUE
set_value == ~SIMULATION_MODE

\* modify_hive_value(TEMP_MOUNT_NAME); error: winreg raises something other
\* than FileNotFoundError (in OpenKey, QueryValueEx or SetValueEx)
modify_hive_value ==
  /\ pc = "modify"
  /\ \E error \in BOOLEAN :
       LET result == HasOldValue(mounted.lines) /\ ~error
           written == result /\ set_value
       IN /\ modified' = result
          /\ mounted' =
               (IF written
                THEN [mounted EXCEPT !.lines = SetValueEx(mounted.lines)]
                ELSE mounted)
          /\ hivesWritten' =
               (IF written THEN hivesWritten \cup {caller} ELSE hivesWritten)
          /\ tried' =
               Append(tried,
                      Tr("modify_hive_value", cur.id, cur.t, cur.parsed, result))
          /\ ran' =
               ran \cup (IF result THEN {Ev("modify_hive_value", caller, TRUE)}
                         ELSE {})
                   \cup (IF written THEN {Ev("SetValueEx", caller, TRUE)} ELSE {})
          /\ pc' = (IF result THEN "export" ELSE "unload")
  /\ UNCHANGED <<SIMULATION_MODE, regfile, searchVars, found, caller, cur,
                 fileVars, liveRegistry>>

\* if not SIMULATION_MODE, in export_and_save
merge_export == ~SIMULATION_MODE

\* export_and_save(TEMP_MOUNT_NAME), whose result the searches ignore, and
\* the "found = True" that follows it in search_vss_snapshots
export_and_save ==
  /\ pc = "export"
  /\ \/ /\ ran' = ran \cup {Ev("reg export", caller, FALSE)}
        /\ UNCHANGED <<snapshotExport, outputFile, liveRegistry>>
     \/ \E import_ok \in BOOLEAN :
          LET data == FileText(mounted.lines)
              data_fixed == fixed_export(data, TEMP_MOUNT_NAME)
          IN /\ snapshotExport' = Written(data)
             /\ outputFile' = Written(data_fixed)
             /\ liveRegistry' =
                  (IF merge_export /\ import_ok
                   THEN Append(liveRegistry, data_fixed) ELSE liveRegistry)
             /\ ran' =
                  ran \cup {Ev("reg export", caller, TRUE)}
                      \cup (IF merge_export
                            THEN {Ev("reg import", caller, import_ok)} ELSE {})
  /\ found' = (IF caller = "vss" THEN TRUE ELSE found)
  /\ pc' = "unload"
  /\ UNCHANGED <<SIMULATION_MODE, regfile, searchVars, caller, hiveVars,
                 regfixFile, liveBackup, tried>>

\* reg_unload(TEMP_MOUNT_NAME) inside the try, and what follows it: return
\* True (restore points), break (VSS), the next turn, or the except clause
reg_unload ==
  /\ pc = "unload"
  /\ \/ /\ mounted' = Unloaded
        /\ IF caller = "rp" /\ modified
           THEN /\ found' = TRUE
                /\ pc' = "main_end"
                /\ ran' = ran \cup {Ev("search_old_restore_points", "return", TRUE)}
                /\ Return
           ELSE IF caller = "vss" /\ found
           THEN /\ pc' = "main_end"
                /\ ran' = ran \cup {Ev("search_vss_snapshots", "return", TRUE)}
                /\ found' = found
                /\ Return
           ELSE /\ NextTurn
                /\ UNCHANGED <<found, ran>>
     \/ /\ pc' = "except"
        /\ UNCHANGED <<mounted, found, ran, searchVars, cur, modified, tried>>
  /\ UNCHANGED <<SIMULATION_MODE, regfile, caller, hivesWritten, fileVars,
                 liveRegistry>>

\* the except clause of the loop: try reg_unload, ignore its failure, and go
\* on with the next turn
except_unload ==
  /\ pc = "except"
  /\ \E ok \in BOOLEAN :
       /\ ok => mounted.loaded
       /\ mounted' = (IF ok THEN Unloaded ELSE mounted)
  /\ NextTurn
  /\ UNCHANGED <<SIMULATION_MODE, regfile, found, caller, hivesWritten,
                 fileVars, liveRegistry, ran>>

(* ---------------- specifications ---------------- *)
Next ==
  \/ main
  \/ process_regfile
  \/ backup_live_hkcu_key
  \/ search_old_restore_points
  \/ rp_iter
  \/ search_vss_snapshots
  \/ vss_iter
  \/ reg_load
  \/ modify_hive_value
  \/ export_and_save
  \/ reg_unload
  \/ except_unload
  \/ main_end

Spec == Init /\ [][Next]_vars

\* export_and_save on every export a mounted hive can give: the hive holds
\* the old value (modify_hive_value returned True) and, in live mode, the
\* new value that modify_hive_value has set
ExportInputs ==
  {ls \in SeqsUpTo(ExportLines, MaxLines) : WellFormedExport(ls) /\ HasOldValue(ls)}

InitExport ==
  /\ InitCommon
  /\ pc = "export"
  /\ SIMULATION_MODE \in BOOLEAN
  /\ caller \in {"rp", "vss"}
  /\ \E ls \in ExportInputs :
       /\ cur = [id |-> 1, t |-> CUTOFF_DATETIME - 1, parsed |-> TRUE, lines |-> ls]
       /\ mounted = [loaded |-> TRUE,
                     lines |-> IF SIMULATION_MODE THEN ls ELSE SetValueEx(ls)]
  /\ modified = TRUE
  /\ snapshotExport = NoSuchFile
  /\ outputFile = NoSuchFile

NextExport == export_and_save

SpecExport == InitExport /\ [][NextExport]_vars

(* ---------------- properties ---------------- *)
Ran(op) == \E e \in ran : e.op = op
Loads == {k \in 1..Len(tried) : tried[k].op = "reg load"}
OutputWritten == outputFile.exists /\ outputFile.data # Leftover

\* C1: in simulation mode no run modifies a registry: neither "reg import"
\* nor winreg.SetValueEx is executed, whatever the regfile, the snapshots
\* and the outcomes of the commands; both occur only in live mode.
C1_SimulationModifiesNothing ==
  SIMULATION_MODE =>
    /\ ~Ran("reg import")
    /\ ~Ran("SetValueEx")
    /\ liveRegistry = <<>>
    /\ hivesWritten = {}

\* a simulation run that found the value in a restore point, wrote the
\* fixed file and ended
C1_Witness ==
  /\ SIMULATION_MODE
  /\ pc = "done"
  /\ Ev("modify_hive_value", "rp", TRUE) \in ran
  /\ OutputWritten

\* C2: reg_load is invoked on the hive of a restore point only if its mtime
\* is strictly before CUTOFF_DATETIME, and on the NTUSER.DAT of a shadow
\* only if the creation time of its set could be parsed and is strictly
\* before CUTOFF_DATETIME.
C2_OnlyBeforeCutoff ==
  \A k \in Loads : tried[k].parsed /\ tried[k].t < CUTOFF_DATETIME

\* a shadow's NTUSER.DAT is being loaded, after a restore point's hive was
C2_Witness ==
  /\ caller = "vss"
  /\ Loads # {}
  /\ Ev("reg load", "rp", TRUE) \in ran

\* the lines of a text that are no key headers, without the empty lines at
\* its end (join leaves out the newline that ends the last line)
RECURSIVE NoBlankEnd(_)
NoBlankEnd(ls) ==
  IF ls # <<>> /\ ls[Len(ls)] = <<>>
  THEN NoBlankEnd(SubSeq(ls, 1, Len(ls) - 1)) ELSE ls

NoHeaders(ls) == NoBlankEnd(SelectSeq(ls, LAMBDA l : ~IsHeader(l)))

\* C3: when the old value is one block of the export (a first line and its
\* continuation lines, each line but the last ending with a backslash), the
\* output holds that block unchanged, then a copy of the whole block under
\* the new name, and every other line in its place.
C3_WholeBlockDuplicated ==
  OutputWritten =>
    LET input == splitlines(snapshotExport.data)
        output == splitlines(outputFile.data)
        olds == {k \in 1..Len(input) : IsOldFirst(input[k])}
    IN Cardinality(olds) = 1 =>
         LET i == CHOOSE k \in olds : TRUE
             last == BlockEnd(input, i)
             block == SubSeq(input, i, last)
             copy == [k \in 1..Len(block) |->
                        Replace(block[k], <<OLD_VALUE_NAME>>, <<NEW_VALUE_NAME>>)]
         IN NoHeaders(output) =
              NoHeaders(SubSeq(input, 1, last) \o copy
                        \o SubSeq(input, last + 1, Len(input)))

\* C4: every key header of the fixed copy begins with
\* [HKEY_CURRENT_USER\Software\KLab\BleachBraveSouls and none still refers
\* to HKEY_USERS\TempHive.
C4_HeadersUnderHKCU ==
  OutputWritten =>
    \A k \in 1..Len(splitlines(outputFile.data)) :
      LET line == splitlines(outputFile.data)[k]
      IN IsHeader(line) =>
           /\ StartsWith(line, <<"[", "HKEY_CURRENT_USER", BS, TARGET_REL_PATH>>)
           /\ ~Contains(line, <<"HKEY_USERS", BS, TEMP_MOUNT_NAME>>)

\* C5: every "reg import" into the live registry is preceded, in the same
\* run, by a "reg export" of the live key to LIVE_BACKUP_FILE that
\* succeeded (ran only grows, so this is stated of every state).
C5_BackupBeforeImport ==
  Ran("reg import") =>
    \E e \in ran :
      e.op = "reg export" /\ e.a \in {"main", "process_regfile"} /\ e.ok

\* the file named by --regfile holds the header of the target key
HeaderInFile(rf) ==
  rf.exists /\ rf.enc # "neither" /\ Contains(rf.text, target_key_line)

\* C6: when process_regfile returns True, main runs no search and no reg
\* load; when the file does not exist or lacks the header, process_regfile
\* makes no backup, writes no output and runs no import, and main goes on to
\* the restore-point/VSS search.
C6_RegfileInsteadOfSearch ==
  /\ Ev("process_regfile", "return", TRUE) \in ran =>
       /\ ~Ran("search_old_restore_points")
       /\ ~Ran("search_vss_snapshots")
       /\ ~Ran("reg load")
  /\ (Ran("process_regfile") /\ ~HeaderInFile(regfile)) =>
       /\ \A e \in ran : e.a # "process_regfile"
       /\ ~regfixFile.exists
       /\ pc # "crashed"
       /\ pc = "done" => Ran("search_old_restore_points")

\* C7: search_old_restore_points loads the restore points newest first and
\* stops at the first whose hive holds the old value: whatever reg load,
\* reg export and reg unload return, no restore point is loaded after it
\* and the function returns True; search_vss_snapshots runs only after
\* search_old_restore_points returned False.
C7_StopsAtFirstFound ==
  /\ caller = "rp" =>
       \A i \in Loads : \A j \in Loads : i < j => tried[i].t >= tried[j].t
  /\ caller = "rp" =>
       \A i \in 1..Len(tried) : \A j \in Loads :
         (tried[i].op = "modify_hive_value" /\ tried[i].ok) => j < i
  /\ Ev("modify_hive_value", "rp", TRUE) \in ran =>
       Ev("search_old_restore_points", "return", FALSE) \notin ran
  /\ Ran("search_vss_snapshots") =>
       Ev("search_old_restore_points", "return", FALSE) \in ran

====
